---- MODULE Spec2Model ----
(***************************************************************************)
(* Model of pkg/command: a Command configuration, the three run            *)
(* operations (RunShell, RunExecutable, RunExecutableInBackground), the    *)
(* child process with its two output pipes, the two drain goroutines of    *)
(* startCmd, the WaitGroup barrier and the copy-error slots of an          *)
(* execution, and the error values returned to the caller.                 *)
(***************************************************************************)
EXTENDS Integers, Sequences, FiniteSets, TLC

\* ------------------------------------------------------------------ bounds
\* most bytes the process writes to one stream
MaxOut == 2
\* bytes an OS pipe holds before the writer blocks
PipeCap == 1
\* most bytes a failing sink accepts before its Write returns an error
MaxSinkLimit == 1
\* most entries of an environment override list
MaxEnv == 2
\* most bytes of a shell script
MaxScript == 2
\* most console lines given to the classifier
MaxLines == 3

\* ------------------------------------------------------------- vocabulary
Streams == {"stdout", "stderr"}
Modes == {"shell", "exec", "background"}
Blocking == {"shell", "exec"}

\* a nil io.Writer in the Command
NilWriter == "nil"
\* a writer whose Write never fails, and one that fails once it holds n bytes more
Sound == [fails |-> FALSE, after |-> 0]
Failing(n) == [fails |-> TRUE, after |-> n]

\* the invocation the caller makes in each mode (TestShellRun, TestExecutableRun)
Executable == "echo"
Params == <<"foo bar", "baz">>
Shell == "/bin/bash"
Script == <<"m", "y">>

\* the bytes the process writes to stream s when it writes n of them
OutputOf(s, n) == [i \in 1..n |-> IF s = "stdout" THEN i ELSE 10 + i]

Range(f) == {f[i] : i \in DOMAIN f}

\* ------------------------------------------------------------ error values
\* An error is the chain of its frames, outermost first; nil is the empty chain.
NilErr == <<>>

Frame(m, a) == [msg |-> m, args |-> a]

\* errors the platform hands to the package
ErrExit == <<Frame("exit status 1", <<>>)>>
ErrNotFound == <<Frame("executable file not found in $PATH", <<>>)>>
ErrPipe(s) == <<Frame(IF s = "stdout" THEN "exec: Stdout already set" ELSE "exec: Stderr already set", <<>>)>>
ErrWrite(s) == <<Frame(IF s = "stdout" THEN "stdout sink: short write" ELSE "stderr sink: short write", <<>>)>>

\* errors.Wrap / errors.Wrapf: a new frame in front, the cause chain kept
Wrap(err, m) == <<Frame(m, <<>>)>> \o err
Wrapf(err, m, a) == <<Frame(m, a)>> \o err

\* err.Error(): every frame's message and format arguments, outermost first
RECURSIVE Text(_)
Text(err) == IF err = <<>> THEN <<>> ELSE <<err[1].msg>> \o err[1].args \o Text(Tail(err))

\* the %v verb applied to an error value
FmtV(err) == IF err = NilErr THEN <<"<nil>">> ELSE Text(err)

\* fmt.Errorf: one fresh frame holding the formatted text; no cause chain
Errorf(m, a) == <<Frame(m, a)>>

\* errors.Cause: the innermost error of the chain
Cause(err) == IF err = NilErr THEN NilErr ELSE <<err[Len(err)]>>

\* ------------------------------------------------------------- environment
\* An environment entry KEY=VALUE is the pair <<KEY, VALUE>>.
Entry(k, v) == <<k, v>>

\* os/exec: of duplicate keys only the last value in the slice is used
RECURSIVE Getenv(_, _)
Getenv(env, k) ==
    IF env = <<>> THEN "unset"
    ELSE IF env[Len(env)][1] = k THEN env[Len(env)][2]
    ELSE Getenv(SubSeq(env, 1, Len(env) - 1), k)

\* appendEnvironment with the overrides replacing the environment
AppendEnvironmentReplace(cmdEnv, osEnviron, env) ==
    IF Len(env) > 0 THEN env ELSE cmdEnv

\* appendEnvironment: the value of cmd.Env it leaves
AppendEnvironment(cmdEnv, osEnviron, env) ==
    IF Len(env) > 0
    THEN (IF Len(cmdEnv) = 0 THEN osEnviron ELSE cmdEnv) \o env
    ELSE cmdEnv

\* os/exec: a nil cmd.Env means the child gets the parent's environment
ChildEnv(cmdEnv, osEnviron) == IF Len(cmdEnv) = 0 THEN osEnviron ELSE cmdEnv

\* prepareOut: a nil writer becomes the process-wide standard stream
\* prepareOut ignoring the configured sink
PrepareOutStd(w, s) == IF s = "stdout" THEN "os.Stdout" ELSE "os.Stderr"

PrepareOut(w, s) == IF w = NilWriter THEN (IF s = "stdout" THEN "os.Stdout" ELSE "os.Stderr") ELSE w

SinkIds == {"os.Stdout", "os.Stderr", "bufOut", "bufErr"}

\* ------------------------------------------------------------------- state
VARIABLES
    cfg,        \* the Command: dir, stdout, stderr, env
    environ,    \* os.Environ() of the calling process
    execEnv,    \* cmd.Env as ExecCommand returns it (nil for exec.Command)
    world,      \* what the executable and the platform do in a run
    plan,       \* the run operations the caller still makes, in order
    pc,         \* position of the calling goroutine
    call,       \* the operation in progress: mode, name, params
    cmd,        \* the exec.Cmd and the writers prepareOut resolved
    attached,   \* per stream: the pipe was obtained
    pipe,       \* per stream: bytes written by the process, not yet read
    proc,       \* the child process
    drain,      \* per stream: position of the drain goroutine
    wg,         \* execution.wg counter
    errCopy,    \* execution.errCopyStdout / errCopyStderr
    joined,     \* execution.Wait has returned
    waitErr,    \* what execution.Wait returned
    ret,        \* what the run operation returned to the caller
    sink,       \* content of every writer
    base,       \* per stream: length of the target sink when the run began
    logLines,   \* lines given to log.Entry().Infof
    results,    \* one record per finished run
    writing,    \* per stream: the Write of the drain task that is under way
    slotLog,    \* per copy-error slot: the drain tasks that assigned it, in order
    category,   \* the shared error category of the log package
    mapping,    \* the Command's ErrorCategoryMapping: label -> set of patterns
    fed,        \* the console lines given to the classifier so far
    prior       \* the error category before the first of those lines

vars == <<cfg, environ, execEnv, world, plan, pc, call, cmd, attached, pipe, proc,
          drain, wg, errCopy, joined, waitErr, ret, sink, base, logLines, results,
          writing, slotLog, category, mapping, fed, prior>>

ClsVars == <<category, mapping, fed, prior>>

NoCall == [mode |-> "none", name |-> "", params |-> <<>>, script |-> <<>>]
NoCmd == [env |-> <<>>, dir |-> "", stdin |-> <<>>, out |-> NilWriter, err |-> NilWriter]
NoProc == [state |-> "none", env |-> <<>>, stdin |-> <<>>, args |-> <<>>,
           written |-> [s \in Streams |-> 0], status |-> 0]
NoRet == [handle |-> FALSE, err |-> NilErr]

Target(s) == IF s = "stdout" THEN cmd.out ELSE cmd.err
Total(s) == IF s = "stdout" THEN world.nOut ELSE world.nErr

\* what the current run has appended to the sink of stream s
Delta(s) == SubSeq(sink[Target(s)], base[s] + 1, Len(sink[Target(s)]))

\* no Write under way
NoWrite == [chunk |-> <<>>, off |-> 0, short |-> FALSE]

FreshRun ==
    /\ call = NoCall /\ cmd = NoCmd
    /\ attached = [s \in Streams |-> FALSE]
    /\ pipe = [s \in Streams |-> <<>>]
    /\ proc = NoProc
    /\ drain = [s \in Streams |-> "none"]
    /\ wg = 0
    /\ errCopy = [s \in Streams |-> NilErr]
    /\ joined = FALSE
    /\ waitErr = NilErr
    /\ ret = NoRet
    /\ base = [s \in Streams |-> 0]
    /\ writing = [s \in Streams |-> NoWrite]
    /\ slotLog = [s \in Streams |-> <<>>]

\* a launch that succeeds: what the child writes, how it exits, what the sinks take
RunningWorlds ==
    [launch : {"ok"}, nOut : 0..MaxOut, nErr : 0..MaxOut, exit : {0, 1},
     writer : [Streams -> {Sound} \cup {Failing(n) : n \in 0..MaxSinkLimit}]]

\* a launch that fails: a pipe that cannot be obtained, or cmd.Start failing
FailingWorlds ==
    [launch : {"noStdoutPipe", "noStderrPipe", "noStart"}, nOut : {0}, nErr : {0}, exit : {0},
     writer : {[s \in Streams |-> Sound]}]

Worlds == RunningWorlds \cup FailingWorlds

\* the Command as constructed: Command{}
ZeroCommand == [dir |-> "", stdout |-> NilWriter, stderr |-> NilWriter, env |-> <<>>]

\* one operation of the caller: a setter with its argument, or a run
Op(o, str, list) == [op |-> o, s |-> str, env |-> list]
Run(m) == Op(m, "", IF m = "shell" THEN Script ELSE <<>>)

\* the caller configures the Command with all four setters
Setup(d, out, err, e) ==
    <<Op("SetDir", d, <<>>), Op("Stdout", out, <<>>), Op("Stderr", err, <<>>), Op("SetEnv", "", e)>>

\* the setter arguments that leave everything at its default, and a full set
Plain == Setup("", NilWriter, NilWriter, <<>>)
Buffered(e) == Setup("/home/piper", "bufOut", "bufErr", e)

\* override entries, and the override lists of at most MaxEnv of them
EnvEntries == {Entry("DEBUG", "true"), Entry("DEBUG", "1"), Entry("PATH", "/opt")}
RECURSIVE Lists(_)
Lists(n) == IF n = 0 THEN {<<>>} ELSE Lists(n - 1) \cup {Append(l, e) : l \in Lists(n - 1), e \in EnvEntries}
Overrides == Lists(MaxEnv)

\* the scripts of at most MaxScript bytes, the empty one among them
ScriptBytes == {"m", "y"}
RECURSIVE ScriptsOf(_)
ScriptsOf(n) == IF n = 0 THEN {<<>>} ELSE ScriptsOf(n - 1) \cup {Append(t, b) : t \in ScriptsOf(n - 1), b \in ScriptBytes}
Scripts == ScriptsOf(MaxScript)

\* ---------------------------------------------------------- the classifier
\* the error categories of the log package
Categories == {"Undefined", "Configuration", "Build"}

\* log.ErrorCategoryByString: the category a mapping label stands for
CategoryByString(label) ==
    IF label = "config" THEN "Configuration"
    ELSE IF label = "build" THEN "Build"
    ELSE "Undefined"

\* console lines and patterns, as the sequences of their words
LineNoMatch == <<"this", "is", "an", "error">>
LineConfig == <<"this", "is", "configuration", "error", "2">>
LineBuild == <<"the", "build", "failed">>
LineBadConfig == <<"this", "is", "a", "bad", "config", "error">>
LineBoth == <<"configuration", "error", "1", "and", "build", "failed">>
LineOtherCase == <<"the", "Build", "Failed">>
Lines == {LineNoMatch, LineConfig, LineBuild, LineBadConfig, LineBoth, LineOtherCase}

NoMapping == [label \in {} |-> {}]
TestMapping ==
    [label \in {"config", "build"} |->
        IF label = "config"
        THEN {<<"configuration", "error", "1">>, <<"configuration", "error", "2">>}
        ELSE {<<"build", "failed">>}]
BadConfigMapping == [label \in {"config"} |-> {<<"bad", "config">>}]
Mappings == {NoMapping, TestMapping, BadConfigMapping}

\* strings.Contains: the pattern occurs in the line, case-sensitively
Contains(line, pattern) ==
    \E i \in 1..(Len(line) - Len(pattern) + 1) : SubSeq(line, i, i + Len(pattern) - 1) = pattern

\* the labels of the mapping one of whose patterns the line contains
Matching(m, line) == {label \in DOMAIN m : \E p \in m[label] : Contains(line, p)}

\* no classifier is configured and no line has been fed
ClassifierIdle ==
    /\ category = "Undefined"
    /\ prior = "Undefined"
    /\ mapping = NoMapping
    /\ fed = <<>>

InitRuns ==
    /\ pc = "idle"
    /\ cfg = ZeroCommand
    /\ FreshRun
    /\ sink = [id \in SinkIds |-> <<>>]
    /\ logLines = <<>>
    /\ results = <<>>

InitCommon ==
    /\ InitRuns
    /\ ClassifierIdle

\* one run of any mode, every behaviour of the executable, a fixed environment
Init ==
    /\ InitCommon
    /\ environ = <<Entry("PATH", "/bin")>>
    /\ execEnv = <<>>
    /\ world \in Worlds
    /\ plan \in {setup \o <<Run(m)>> : setup \in {Plain, Buffered(<<>>)}, m \in Modes}

\* one run of any mode under every environment: the parent's, the one a
\* substituted ExecCommand presets (helperCommand), and the override list
InitEnv ==
    /\ InitCommon
    /\ environ \in {<<>>, <<Entry("PATH", "/bin"), Entry("DEBUG", "false")>>}
    /\ execEnv \in {<<>>, <<Entry("GO_WANT_HELPER_PROCESS", "1")>>}
    /\ world = [launch |-> "ok", nOut |-> 1, nErr |-> 1, exit |-> 0, writer |-> [s \in Streams |-> Sound]]
    /\ plan \in {Buffered(e) \o <<Run(m)>> : e \in Overrides, m \in Modes}

\* two runs of one Command against the same executable, one after the other
InitPair ==
    /\ InitCommon
    /\ environ = <<Entry("PATH", "/bin")>>
    /\ execEnv = <<>>
    /\ world \in Worlds
    /\ plan \in {Buffered(<<>>) \o <<Run(m[1]), Run(m[2])>> :
                    m \in {<<"exec", "background">>, <<"background", "exec">>, <<"shell", "shell">>}}

\* a shell run of every script, and the other two operations, against one executable
InitShell ==
    /\ InitCommon
    /\ environ = <<Entry("PATH", "/bin")>>
    /\ execEnv = <<>>
    /\ world \in [launch : {"ok"}, nOut : {1}, nErr : {1}, exit : {0, 1}, writer : {[s \in Streams |-> Sound]}]
    /\ plan \in {Buffered(<<>>) \o <<Op("shell", "", sc)>> : sc \in Scripts}
               \cup {Buffered(<<>>) \o <<Run(m)>> : m \in {"exec", "background"}}

\* one run of any mode with each sink, separately, left unset or set
InitSinks ==
    /\ InitCommon
    /\ environ = <<Entry("PATH", "/bin")>>
    /\ execEnv = <<>>
    /\ world \in Worlds
    /\ plan \in {Setup("", out, err, <<>>) \o <<Run(m)>> :
                    out \in {NilWriter, "bufOut"}, err \in {NilWriter, "bufErr"}, m \in Modes}

\* one run of any mode with every choice of two buffers for the two sinks, the
\* same buffer for both included; the buffers accept every write
InitShared ==
    /\ InitCommon
    /\ environ = <<Entry("PATH", "/bin")>>
    /\ execEnv = <<>>
    /\ world \in [launch : {"ok"}, nOut : 0..MaxOut, nErr : 0..MaxOut, exit : {0, 1},
                  writer : {[s \in Streams |-> Sound]}]
    /\ plan \in {Setup("", out, err, <<>>) \o <<Run(m)>> :
                    out \in {"bufOut", "bufErr"}, err \in {"bufOut", "bufErr"}, m \in Modes}

\* worlds of a reused Command: every failure of the launch, and a child that
\* writes to both streams, exits with either status, into sinks sound or failing
ReuseWorlds ==
    FailingWorlds \cup
    [launch : {"ok"}, nOut : {1}, nErr : {1}, exit : {0, 1}, writer : [Streams -> {Sound, Failing(0)}]]

\* two runs, one after the other, of one Command with an override list and each
\* sink unset or set
InitReuse ==
    /\ InitCommon
    /\ environ = <<Entry("PATH", "/bin"), Entry("DEBUG", "false")>>
    /\ execEnv = <<>>
    /\ world \in ReuseWorlds
    /\ plan \in {Setup("/home/piper", out, err, <<Entry("DEBUG", "true")>>) \o <<Run(m[1]), Run(m[2])>> :
                    out \in {NilWriter, "bufOut"}, err \in {NilWriter, "bufErr"},
                    m \in {<<"shell", "exec">>, <<"exec", "background">>, <<"background", "shell">>}}

\* one run of any mode; every launch failure, every amount of output and exit
\* status, each sink sound or failing at its first write
InitLive ==
    /\ InitCommon
    /\ environ = <<Entry("PATH", "/bin")>>
    /\ execEnv = <<>>
    /\ world \in FailingWorlds \cup
                 [launch : {"ok"}, nOut : 0..MaxOut, nErr : 0..MaxOut, exit : {0, 1},
                  writer : [Streams -> {Sound, Failing(0)}]]
    /\ plan \in {setup \o <<Run(m)>> : setup \in {Plain, Buffered(<<>>)}, m \in Modes}

\* the classifier alone: every mapping, every category left by earlier runs
InitClassifier ==
    /\ InitRuns
    /\ environ = <<>>
    /\ execEnv = <<>>
    /\ world = [launch |-> "ok", nOut |-> 0, nErr |-> 0, exit |-> 0, writer |-> [s \in Streams |-> Sound]]
    /\ plan = <<>>
    /\ mapping \in Mappings
    /\ prior \in Categories
    /\ category = prior
    /\ fed = <<>>

\* ------------------------------------------------------------- the setters
\* the caller's next operation is o
Calls(o) == pc = "idle" /\ plan # <<>> /\ Head(plan).op = o

RunVars == <<call, cmd, attached, pipe, proc, drain, wg, errCopy, joined, waitErr, ret, base,
             writing, slotLog>>

SetDir ==
    /\ Calls("SetDir")
    /\ cfg' = [cfg EXCEPT !.dir = Head(plan).s]
    /\ plan' = Tail(plan)
    /\ UNCHANGED <<ClsVars, environ, execEnv, world, pc, RunVars, sink, logLines, results>>

SetEnv ==
    /\ Calls("SetEnv")
    /\ cfg' = [cfg EXCEPT !.env = Head(plan).env]
    /\ plan' = Tail(plan)
    /\ UNCHANGED <<ClsVars, environ, execEnv, world, pc, RunVars, sink, logLines, results>>

Stdout ==
    /\ Calls("Stdout")
    /\ cfg' = [cfg EXCEPT !.stdout = Head(plan).s]
    /\ plan' = Tail(plan)
    /\ UNCHANGED <<ClsVars, environ, execEnv, world, pc, RunVars, sink, logLines, results>>

Stderr ==
    /\ Calls("Stderr")
    /\ cfg' = [cfg EXCEPT !.stderr = Head(plan).s]
    /\ plan' = Tail(plan)
    /\ UNCHANGED <<ClsVars, environ, execEnv, world, pc, RunVars, sink, logLines, results>>

\* ------------------------------------------------------- the run operations
\* the context each public operation wraps a failure with
OpWrap(err) ==
    IF call.mode = "shell" THEN Wrapf(err, "running shell script failed with %v", <<call.name>>)
    ELSE IF call.mode = "exec" THEN Wrapf(err, "running command '%v' failed", <<call.name>>)
    ELSE Wrapf(err, "starting command '%v' failed", <<call.name>>)

\* the lines every operation runs before startCmd: prepareOut, ExecCommand,
\* cmd.Dir, the log line, appendEnvironment and, for a shell, cmd.Stdin
\* the start of a run storing the resolved sinks in the Command
PrologueStoresSinks(mode, name, params, stdin, fmt) ==
    /\ call' = [mode |-> mode, name |-> name, params |-> params, script |-> Head(plan).env]
    /\ cmd' = [env |-> AppendEnvironment(execEnv, environ, cfg.env),
               dir |-> cfg.dir,
               stdin |-> stdin,
               out |-> PrepareOut(cfg.stdout, "stdout"),
               err |-> PrepareOut(cfg.stderr, "stderr")]
    /\ cfg' = [cfg EXCEPT !.stdout = PrepareOut(cfg.stdout, "stdout"),
                          !.stderr = PrepareOut(cfg.stderr, "stderr")]
    /\ base' = [s \in Streams |-> Len(sink[PrepareOut(IF s = "stdout" THEN cfg.stdout ELSE cfg.stderr, s)])]
    /\ logLines' = Append(logLines, [fmt |-> fmt, name |-> name, rest |-> IF mode = "shell" THEN stdin ELSE params])
    /\ pc' = "pipes"
    /\ UNCHANGED <<ClsVars, writing, slotLog, environ, execEnv, world, plan, attached, pipe, proc, drain, wg,
                   errCopy, joined, waitErr, ret, sink, results>>

Prologue(mode, name, params, stdin, fmt) ==
    /\ call' = [mode |-> mode, name |-> name, params |-> params, script |-> Head(plan).env]
    /\ cmd' = [env |-> AppendEnvironment(execEnv, environ, cfg.env),
               dir |-> cfg.dir,
               stdin |-> stdin,
               out |-> PrepareOut(cfg.stdout, "stdout"),
               err |-> PrepareOut(cfg.stderr, "stderr")]
    /\ base' = [s \in Streams |-> Len(sink[PrepareOut(IF s = "stdout" THEN cfg.stdout ELSE cfg.stderr, s)])]
    /\ logLines' = Append(logLines, [fmt |-> fmt, name |-> name, rest |-> IF mode = "shell" THEN stdin ELSE params])
    /\ pc' = "pipes"
    /\ UNCHANGED <<ClsVars, writing, slotLog, cfg, environ, execEnv, world, plan, attached, pipe, proc, drain, wg,
                   errCopy, joined, waitErr, ret, sink, results>>

\* RunShell leaving cmd.Stdin unset
RunShellNoStdin ==
    /\ Calls("shell")
    /\ Prologue("shell", Shell, <<>>, <<>>, "running shell script: %v %v")

RunShell ==
    /\ Calls("shell")
    /\ Prologue("shell", Shell, <<>>, Head(plan).env, "running shell script: %v %v")

RunExecutable ==
    /\ Calls("exec")
    /\ Prologue("exec", Executable, Params, <<>>, "running command: %v %v")

RunExecutableInBackground ==
    /\ Calls("background")
    /\ Prologue("background", Executable, Params, <<>>, "running command: %v %v")

\* startCmd returned (nil, err): runCmd hands err on and the operation wraps it
StartCmdFailed(err) ==
    /\ ret' = [handle |-> FALSE, err |-> OpWrap(err)]
    /\ pc' = "done"

\* cmdPipes going on to cmd.Start although the stderr pipe was not obtained
CmdPipesIgnoreStderr ==
    /\ pc = "pipes"
    /\ IF world.launch = "noStdoutPipe"
       THEN /\ StartCmdFailed(Wrap(Wrap(ErrPipe("stdout"), "getting Stdout pipe failed"),
                                   "getting command pipes failed"))
            /\ UNCHANGED attached
       ELSE /\ attached' = [s \in Streams |-> s = "stdout" \/ world.launch # "noStderrPipe"]
            /\ pc' = "start"
            /\ UNCHANGED ret
    /\ UNCHANGED <<ClsVars, writing, slotLog, cfg, environ, execEnv, world, plan, call, cmd, pipe, proc, drain, wg,
                   errCopy, joined, waitErr, sink, base, logLines, results>>

\* startCmd up to cmd.Start: cmdPipes obtains the stdout pipe, then the stderr pipe
CmdPipes ==
    /\ pc = "pipes"
    /\ IF world.launch = "noStdoutPipe"
       THEN /\ StartCmdFailed(Wrap(Wrap(ErrPipe("stdout"), "getting Stdout pipe failed"),
                                   "getting command pipes failed"))
            /\ UNCHANGED attached
       ELSE IF world.launch = "noStderrPipe"
       THEN /\ StartCmdFailed(Wrap(Wrap(ErrPipe("stderr"), "getting Stderr pipe failed"),
                                   "getting command pipes failed"))
            /\ attached' = [attached EXCEPT !["stdout"] = TRUE]
       ELSE /\ attached' = [s \in Streams |-> TRUE]
            /\ pc' = "start"
            /\ UNCHANGED ret
    /\ UNCHANGED <<ClsVars, writing, slotLog, cfg, environ, execEnv, world, plan, call, cmd, pipe, proc, drain, wg,
                   errCopy, joined, waitErr, sink, base, logLines, results>>

Started == [state |-> "running", env |-> ChildEnv(cmd.env, environ), stdin |-> cmd.stdin,
            args |-> call.params, written |-> [s \in Streams |-> 0], status |-> 0]

\* cmd.Start whose error is not looked at
CmdStartUnchecked ==
    /\ pc = "start"
    /\ proc' = IF world.launch = "noStart" THEN proc ELSE Started
    /\ pc' = "add"
    /\ UNCHANGED <<ClsVars, writing, slotLog, cfg, environ, execEnv, world, plan, call, cmd, attached, pipe, drain, wg,
                   errCopy, joined, waitErr, ret, sink, base, logLines, results>>

\* startCmd: cmd.Start and the check of its error
CmdStart ==
    /\ pc = "start"
    /\ IF world.launch = "noStart"
       THEN /\ StartCmdFailed(Wrap(ErrNotFound, "starting command failed"))
            /\ UNCHANGED proc
       ELSE /\ proc' = Started
            /\ pc' = "add"
            /\ UNCHANGED ret
    /\ UNCHANGED <<ClsVars, writing, slotLog, cfg, environ, execEnv, world, plan, call, cmd, attached, pipe, drain, wg,
                   errCopy, joined, waitErr, sink, base, logLines, results>>

\* the barrier registered for one task only
WgAddOne ==
    /\ pc = "add"
    /\ wg' = wg + 1
    /\ pc' = "goStdout"
    /\ UNCHANGED <<ClsVars, writing, slotLog, cfg, environ, execEnv, world, plan, call, cmd, attached, pipe, proc, drain,
                   errCopy, joined, waitErr, ret, sink, base, logLines, results>>

\* startCmd: execution.wg.Add(2)
WgAdd ==
    /\ pc = "add"
    /\ wg' = wg + 2
    /\ pc' = "goStdout"
    /\ UNCHANGED <<ClsVars, writing, slotLog, cfg, environ, execEnv, world, plan, call, cmd, attached, pipe, proc, drain,
                   errCopy, joined, waitErr, ret, sink, base, logLines, results>>

\* startCmd: the go statement of the stdout drain
GoStdout ==
    /\ pc = "goStdout"
    /\ drain' = [drain EXCEPT !["stdout"] = "copying"]
    /\ pc' = "goStderr"
    /\ UNCHANGED <<ClsVars, writing, slotLog, cfg, environ, execEnv, world, plan, call, cmd, attached, pipe, proc, wg,
                   errCopy, joined, waitErr, ret, sink, base, logLines, results>>

\* startCmd: the go statement of the stderr drain, and the return of the execution;
\* RunExecutableInBackground hands it to the caller, runCmd goes on to Wait
GoStderr ==
    /\ pc = "goStderr"
    /\ drain' = [drain EXCEPT !["stderr"] = "copying"]
    /\ ret' = IF call.mode = "background" THEN [handle |-> TRUE, err |-> NilErr] ELSE ret
    /\ pc' = "wait"
    /\ UNCHANGED <<ClsVars, writing, slotLog, cfg, environ, execEnv, world, plan, call, cmd, attached, pipe, proc, wg,
                   errCopy, joined, waitErr, sink, base, logLines, results>>

\* -------------------------------------------------------------- the process
\* the child writes its next byte to stream s; it blocks while the pipe is full
ProcWrite(s) ==
    /\ proc.state = "running"
    /\ proc.written[s] < Total(s)
    /\ Len(pipe[s]) < PipeCap
    /\ pipe' = [pipe EXCEPT ![s] = Append(@, OutputOf(s, Total(s))[proc.written[s] + 1])]
    /\ proc' = [proc EXCEPT !.written[s] = @ + 1]
    /\ UNCHANGED <<ClsVars, writing, slotLog, cfg, environ, execEnv, world, plan, pc, call, cmd, attached, drain, wg,
                   errCopy, joined, waitErr, ret, sink, base, logLines, results>>

\* the child has written everything: it exits, which closes its ends of the pipes
ProcExit ==
    /\ proc.state = "running"
    /\ \A s \in Streams : proc.written[s] = Total(s)
    /\ proc' = [proc EXCEPT !.state = "exited", !.status = world.exit]
    /\ UNCHANGED <<ClsVars, writing, slotLog, cfg, environ, execEnv, world, plan, pc, call, cmd, attached, pipe, drain, wg,
                   errCopy, joined, waitErr, ret, sink, base, logLines, results>>

\* ----------------------------------------------------------- the drain tasks
\* Write of a sink with the chunk put in front of what it holds
SinkWritePrepend(content, chunk) == chunk \o content

\* Write of a sink: the chunk is appended
SinkWrite(content, chunk) == content \o chunk

\* bytes a failing sink of stream s still accepts in this run
Room(s) == world.writer[s].after - (Len(sink[Target(s)]) - base[s])

\* the copy-error slot a drain task assigns: errCopyStdout by the stdout task,
\* errCopyStderr by the stderr task
SlotOfStdout(s) == "stdout"

SlotOf(s) == s

\* io.Copy returns and its error is assigned to the slot of the task
SetSlot(s, err) ==
    /\ errCopy' = [errCopy EXCEPT ![SlotOf(s)] = err]
    /\ slotLog' = [slotLog EXCEPT ![SlotOf(s)] = Append(@, s)]

\* what a Write that began when the sink held off bytes can leave in the sink:
\* the chunk after everything the sink holds now or, the sink having no lock,
\* at the place found when the Write began, over what another Write put there
WriteOutcomes(content, w) ==
    {SinkWrite(content, w.chunk), SinkWrite(SubSeq(content, 1, w.off), w.chunk)}

\* the stderr task copying only once the stdout task has finished
DrainCopySerial(s) ==
    /\ drain[s] = "copying"
    /\ s = "stderr" => drain["stdout"] = "done"
    /\ pipe[s] # <<>>
    /\ \E k \in 1..Len(pipe[s]) :
         LET chunk == SubSeq(pipe[s], 1, k)
             fits == ~world.writer[s].fails \/ k <= Room(s)
             taken == IF fits THEN chunk ELSE SubSeq(chunk, 1, Room(s))
         IN /\ pipe' = [pipe EXCEPT ![s] = SubSeq(@, k + 1, Len(@))]
            /\ writing' = [writing EXCEPT ![s] =
                              [chunk |-> taken, off |-> Len(sink[Target(s)]), short |-> ~fits]]
    /\ drain' = [drain EXCEPT ![s] = "writing"]
    /\ UNCHANGED <<ClsVars, slotLog, cfg, environ, execEnv, world, plan, pc, call, cmd, attached, proc, wg,
                   errCopy, joined, waitErr, ret, sink, base, logLines, results>>

\* io.Copy, one round, first half: read what the pipe holds (some of it) and call
\* Write of the sink with it; a failing sink will take only what it has room for
DrainCopy(s) ==
    /\ drain[s] = "copying"
    /\ pipe[s] # <<>>
    /\ \E k \in 1..Len(pipe[s]) :
         LET chunk == SubSeq(pipe[s], 1, k)
             fits == ~world.writer[s].fails \/ k <= Room(s)
             taken == IF fits THEN chunk ELSE SubSeq(chunk, 1, Room(s))
         IN /\ pipe' = [pipe EXCEPT ![s] = SubSeq(@, k + 1, Len(@))]
            /\ writing' = [writing EXCEPT ![s] =
                              [chunk |-> taken, off |-> Len(sink[Target(s)]), short |-> ~fits]]
    /\ drain' = [drain EXCEPT ![s] = "writing"]
    /\ UNCHANGED <<ClsVars, slotLog, cfg, environ, execEnv, world, plan, pc, call, cmd, attached, proc, wg,
                   errCopy, joined, waitErr, ret, sink, base, logLines, results>>

\* io.Copy, one round, second half: Write returns; a short write ends the copy
\* with an error, stored in the slot of the task
DrainWritten(s) ==
    /\ drain[s] = "writing"
    /\ \E content \in WriteOutcomes(sink[Target(s)], writing[s]) :
         sink' = [sink EXCEPT ![Target(s)] = content]
    /\ writing' = [writing EXCEPT ![s] = NoWrite]
    /\ IF writing[s].short
       THEN /\ SetSlot(s, ErrWrite(s))
            /\ drain' = [drain EXCEPT ![s] = "copied"]
       ELSE /\ drain' = [drain EXCEPT ![s] = "copying"]
            /\ UNCHANGED <<errCopy, slotLog>>
    /\ UNCHANGED <<ClsVars, cfg, environ, execEnv, world, plan, pc, call, cmd, attached, pipe, proc, wg,
                   joined, waitErr, ret, base, logLines, results>>

\* io.Copy reads end-of-stream: the pipe is empty and the child has closed it
DrainEOF(s) ==
    /\ drain[s] = "copying"
    /\ pipe[s] = <<>>
    /\ proc.state = "exited"
    /\ SetSlot(s, NilErr)
    /\ drain' = [drain EXCEPT ![s] = "copied"]
    /\ UNCHANGED <<ClsVars, writing, cfg, environ, execEnv, world, plan, pc, call, cmd, attached, pipe, proc, wg,
                   joined, waitErr, ret, sink, base, logLines, results>>

\* a drain task ending without signalling the barrier
DrainDoneSilent(s) ==
    /\ drain[s] = "copied"
    /\ drain' = [drain EXCEPT ![s] = "done"]
    /\ UNCHANGED <<ClsVars, writing, slotLog, cfg, environ, execEnv, world, plan, pc, call, cmd, attached, pipe, proc, wg,
                   errCopy, joined, waitErr, ret, sink, base, logLines, results>>

\* execution.wg.Done()
DrainDone(s) ==
    /\ drain[s] = "copied"
    /\ wg' = wg - 1
    /\ drain' = [drain EXCEPT ![s] = "done"]
    /\ UNCHANGED <<ClsVars, writing, slotLog, cfg, environ, execEnv, world, plan, pc, call, cmd, attached, pipe, proc,
                   errCopy, joined, waitErr, ret, sink, base, logLines, results>>

\* ------------------------------------------------------------ join and after
ExitErr == IF proc.status = 0 THEN NilErr ELSE ErrExit

\* the aggregated result of a join: the exit error, or else a copy error
JoinResult(exitErr, eOut, eErr) ==
    IF exitErr # NilErr THEN exitErr ELSE IF eOut # NilErr THEN eOut ELSE eErr

\* execution.Wait: returns once both drains have signalled and the child has exited
ExecutionWait ==
    /\ pc = "wait"
    /\ wg = 0
    /\ proc.state = "exited"
    /\ joined' = TRUE
    /\ waitErr' = JoinResult(ExitErr, errCopy["stdout"], errCopy["stderr"])
    /\ pc' = IF call.mode \in Blocking THEN "check" ELSE "done"
    /\ UNCHANGED <<ClsVars, writing, slotLog, cfg, environ, execEnv, world, plan, call, cmd, attached, pipe, proc, drain, wg,
                   errCopy, ret, sink, base, logLines, results>>

\* runCmd looking at the stdout slot only
RunCmdResultStdoutOnly(err, eOut, eErr) ==
    IF eOut # NilErr
    THEN Errorf("failed to capture stdout/stderr: '%v'/'%v'", FmtV(eOut) \o FmtV(eErr))
    ELSE IF err # NilErr THEN Wrap(err, "cmd.Run() failed") ELSE NilErr

\* runCmd returning nil whenever no copy error was recorded
RunCmdResultNoExit(err, eOut, eErr) ==
    IF eOut # NilErr \/ eErr # NilErr
    THEN Errorf("failed to capture stdout/stderr: '%v'/'%v'", FmtV(eOut) \o FmtV(eErr))
    ELSE NilErr

\* runCmd after execution.Wait: the error it returns
RunCmdResult(err, eOut, eErr) ==
    IF eOut # NilErr \/ eErr # NilErr
    THEN Errorf("failed to capture stdout/stderr: '%v'/'%v'", FmtV(eOut) \o FmtV(eErr))
    ELSE IF err # NilErr THEN Wrap(err, "cmd.Run() failed") ELSE NilErr

\* runCmd returns and RunShell / RunExecutable wraps a failure
RunCmdReturn ==
    /\ pc = "check"
    /\ LET e == RunCmdResult(waitErr, errCopy["stdout"], errCopy["stderr"])
       IN ret' = [handle |-> FALSE, err |-> IF e # NilErr THEN OpWrap(e) ELSE NilErr]
    /\ pc' = "done"
    /\ UNCHANGED <<ClsVars, writing, slotLog, cfg, environ, execEnv, world, plan, call, cmd, attached, pipe, proc, drain, wg,
                   errCopy, joined, waitErr, sink, base, logLines, results>>

\* the outcome of the finished run as the caller sees it: the error the
\* operation returned and, after a background launch, the error of the join
Outcome ==
    [mode |-> call.mode,
     ok |-> ret.err = NilErr /\ (call.mode = "background" => waitErr = NilErr),
     err |-> ret.err,
     handle |-> ret.handle,
     out |-> Delta("stdout"),
     errOut |-> Delta("stderr")]

\* the caller notes the outcome and turns to its next operation
Finish ==
    /\ pc = "done"
    /\ results' = Append(results, Outcome)
    /\ plan' = Tail(plan)
    /\ pc' = "idle"
    /\ call' = NoCall
    /\ cmd' = NoCmd
    /\ attached' = [s \in Streams |-> FALSE]
    /\ pipe' = [s \in Streams |-> <<>>]
    /\ proc' = NoProc
    /\ drain' = [s \in Streams |-> "none"]
    /\ wg' = 0
    /\ errCopy' = [s \in Streams |-> NilErr]
    /\ joined' = FALSE
    /\ waitErr' = NilErr
    /\ ret' = NoRet
    /\ base' = [s \in Streams |-> 0]
    /\ writing' = [s \in Streams |-> NoWrite]
    /\ slotLog' = [s \in Streams |-> <<>>]
    /\ UNCHANGED <<ClsVars, cfg, environ, execEnv, world, sink, logLines>>

\* parseConsoleErrors setting the category back when nothing matches
ParseConsoleErrorsReset(line) ==
    /\ Len(fed) < MaxLines
    /\ fed' = Append(fed, line)
    /\ IF Matching(mapping, line) = {}
       THEN category' = "Undefined"
       ELSE \E label \in Matching(mapping, line) : category' = CategoryByString(label)
    /\ UNCHANGED <<mapping, prior, cfg, environ, execEnv, world, plan, pc, RunVars, sink,
                   logLines, results>>

\* parseConsoleErrors: the first label, in the iteration order of the map, one of
\* whose patterns the line contains sets the shared category; no match, no change
ParseConsoleErrors(line) ==
    /\ Len(fed) < MaxLines
    /\ fed' = Append(fed, line)
    /\ IF Matching(mapping, line) = {}
       THEN UNCHANGED category
       ELSE \E label \in Matching(mapping, line) : category' = CategoryByString(label)
    /\ UNCHANGED <<mapping, prior, cfg, environ, execEnv, world, plan, pc, RunVars, sink,
                   logLines, results>>

NextClassifier == \E line \in Lines : ParseConsoleErrors(line)

Next ==
    \/ SetDir
    \/ SetEnv
    \/ Stdout
    \/ Stderr
    \/ RunShell
    \/ RunExecutable
    \/ RunExecutableInBackground
    \/ CmdPipes
    \/ CmdStart
    \/ WgAdd
    \/ GoStdout
    \/ GoStderr
    \/ \E s \in Streams : ProcWrite(s)
    \/ ProcExit
    \/ \E s \in Streams : DrainCopy(s)
    \/ \E s \in Streams : DrainWritten(s)
    \/ \E s \in Streams : DrainEOF(s)
    \/ \E s \in Streams : DrainDone(s)
    \/ ExecutionWait
    \/ RunCmdReturn
    \/ Finish

Spec == Init /\ [][Next]_vars

\* the steps of the caller's goroutine, of the child, and of one drain task
Caller ==
    \/ SetDir \/ SetEnv \/ Stdout \/ Stderr
    \/ RunShell \/ RunExecutable \/ RunExecutableInBackground
    \/ CmdPipes \/ CmdStart \/ WgAdd \/ GoStdout \/ GoStderr
    \/ ExecutionWait \/ RunCmdReturn \/ Finish
Child == (\E s \in Streams : ProcWrite(s)) \/ ProcExit
DrainTask(s) == DrainCopy(s) \/ DrainWritten(s) \/ DrainEOF(s) \/ DrainDone(s)

\* the scheduler lets every goroutine and the child run: none that can take a
\* step is held back for ever
Fairness ==
    /\ WF_vars(Caller)
    /\ WF_vars(Child)
    /\ \A s \in Streams : WF_vars(DrainTask(s))

SpecLive == InitLive /\ [][Next]_vars /\ Fairness

SpecEnv == InitEnv /\ [][Next]_vars

SpecPair == InitPair /\ [][Next]_vars

SpecShell == InitShell /\ [][Next]_vars

SpecSinks == InitSinks /\ [][Next]_vars

SpecShared == InitShared /\ [][Next]_vars

SpecReuse == InitReuse /\ [][Next]_vars

SpecClassifier == InitClassifier /\ [][NextClassifier]_vars

\* ------------------------------------------------------------------ claims
\* a run operation has been called and has come back (a background launch: its
\* join too, when the launch succeeded)
RunOver == pc = "done"
BlockingOver == pc = "done" /\ call.mode \in Blocking
CopyError == \E s \in Streams : errCopy[s] # NilErr
Finished(s) == drain[s] = "done"
ReachedEOF(s) == drain[s] = "done" /\ errCopy[s] = NilErr
Mentions(err, str) == str \in Range(Text(err))

\* C1 as stated: whenever the join has returned, the child has exited and both
\* drain tasks have reached end-of-stream.
C1_JoinAfterEOF ==
    joined => proc.state = "exited" /\ \A s \in Streams : ReachedEOF(s)

\* C1 as amended: whenever the join has returned, the child has exited and both
\* drain tasks have finished, each at end-of-stream or stopped by a copy error;
\* none is still copying.
C1_JoinAfterDrains ==
    joined => proc.state = "exited" /\ \A s \in Streams : Finished(s)

C1_Witness ==
    joined /\ proc.written["stdout"] > 0 /\ ReachedEOF("stdout") /\ errCopy["stderr"] # NilErr

\* C2: when a run is over and no copy error was recorded, each sink has received
\* exactly the bytes the child wrote to that stream, in order.
C2_SinkExact ==
    (RunOver /\ joined /\ ~CopyError) =>
        \A s \in Streams : Delta(s) = OutputOf(s, Total(s))

C2_Witness ==
    RunOver /\ joined /\ ~CopyError /\ Len(Delta("stdout")) >= 2 /\ Len(Delta("stderr")) >= 1

\* the environment the child would get were no override set
Inherited == ChildEnv(execEnv, environ)
Keys == {"PATH", "DEBUG", "GO_WANT_HELPER_PROCESS"}
Positions(env, k) == {i \in 1..Len(env) : env[i][1] = k}
Last(S) == CHOOSE i \in S : \A j \in S : j <= i

\* C3: the environment of a started child is the inherited one followed by the
\* override list; a key that is overridden has the value of its last override,
\* any other key its inherited value.
C3_EnvAppend ==
    proc.state # "none" =>
        /\ proc.env = Inherited \o cfg.env
        /\ \A k \in Keys :
             Getenv(proc.env, k) =
                IF Positions(cfg.env, k) # {}
                THEN cfg.env[Last(Positions(cfg.env, k))][2]
                ELSE Getenv(Inherited, k)

C3_Witness ==
    /\ proc.state = "running"
    /\ cfg.env = <<Entry("DEBUG", "true"), Entry("DEBUG", "1")>>
    /\ Getenv(environ, "DEBUG") = "false"
    /\ Getenv(proc.env, "DEBUG") = "1"

PipeFailed == call.mode # "none" /\ pc # "pipes" /\ \E s \in Streams : ~attached[s]

\* C4: a started child has both pipes attached; when a pipe could not be
\* obtained the child is never started, no drain task and no barrier exist, and
\* the run returns a failure whose cause is the pipe error.
C4_PipesBeforeStart ==
    /\ proc.state # "none" => \A s \in Streams : attached[s]
    /\ PipeFailed =>
        /\ proc.state = "none"
        /\ \A s \in Streams : drain[s] = "none"
        /\ wg = 0
        /\ RunOver
        /\ ~ret.handle
        /\ Mentions(ret.err, "getting command pipes failed")
        /\ Cause(ret.err) \in {ErrPipe(s) : s \in Streams}

C4_Witness ==
    PipeFailed /\ attached["stdout"] /\ world.launch = "noStderrPipe"

StartFailed == call.mode # "none" /\ world.launch = "noStart" /\ pc \notin {"pipes", "start"}

\* C5: when cmd.Start fails the operation returns a failure that names the
\* executable and no handle; no drain task was spawned, no barrier registered,
\* and nothing was waited on.
C5_StartFailure ==
    StartFailed =>
        /\ RunOver
        /\ ~ret.handle
        /\ Mentions(ret.err, "starting command failed")
        /\ Mentions(ret.err, call.name)
        /\ Cause(ret.err) = ErrNotFound
        /\ proc.state = "none"
        /\ \A s \in Streams : drain[s] = "none"
        /\ wg = 0
        /\ ~joined

C5_Witness ==
    StartFailed /\ call.mode = "background" /\ ret.err[1].msg = "starting command '%v' failed"

\* C6: a blocking run that recorded a copy error returns a failure, and the
\* failure names every copy error recorded.
C6_CopyErrorFails ==
    (BlockingOver /\ joined /\ CopyError) =>
        /\ ret.err # NilErr
        /\ \A s \in Streams : errCopy[s] # NilErr => Mentions(ret.err, errCopy[s][1].msg)

C6_Witness ==
    BlockingOver /\ joined /\ proc.status = 0 /\ \A s \in Streams : errCopy[s] # NilErr

\* C7: a blocking run with a copy error and a non-success exit status returns a
\* failure that reports the copy error and the exit status.
C7_ExitReported ==
    (BlockingOver /\ joined /\ CopyError /\ proc.status # 0) =>
        /\ \A s \in Streams : errCopy[s] # NilErr => Mentions(ret.err, errCopy[s][1].msg)
        /\ Mentions(ret.err, ErrExit[1].msg)

\* the errors the platform raised in the current run
Raised ==
    (IF world.launch = "noStdoutPipe" THEN {ErrPipe("stdout")} ELSE {})
    \cup (IF world.launch = "noStderrPipe" THEN {ErrPipe("stderr")} ELSE {})
    \cup (IF world.launch = "noStart" THEN {ErrNotFound} ELSE {})
    \cup (IF proc.status # 0 THEN {ErrExit} ELSE {})
    \cup {errCopy[s] : s \in {t \in Streams : errCopy[t] # NilErr}}

\* C8: the cause of every failure a run operation returns is an error the
\* platform raised in that run.
C8_CausePreserved ==
    (RunOver /\ ret.err # NilErr) => Cause(ret.err) \in Raised

\* C9: the failure RunExecutable returns for a non-success exit status without
\* copy error carries the executable name and every argument.
C9_NameAndArgs ==
    (RunOver /\ call.mode = "exec" /\ joined /\ ~CopyError /\ proc.status # 0) =>
        /\ ret.err # NilErr
        /\ Mentions(ret.err, call.name)
        /\ \A i \in 1..Len(call.params) : Mentions(ret.err, call.params[i])

C11_ScriptOnStdin ==
    (call.mode = "shell" /\ proc.state # "none") =>
        /\ proc.stdin = call.script
        /\ proc.args = <<>>
        /\ call.name = Shell

C11_Witness ==
    call.mode = "shell" /\ proc.state = "exited" /\ Len(call.script) = 2 /\ proc.stdin = <<"y", "m">>

C11_WitnessEmpty ==
    call.mode = "shell" /\ proc.state = "exited" /\ call.script = <<>>

\* the places in the fed lines where some pattern of the mapping occurs
Hits == {i \in 1..Len(fed) : Matching(mapping, fed[i]) # {}}

\* C12: the shared category is that of the most recent fed line containing a
\* configured pattern, and the category held before the lines when none does;
\* a line without pattern never sets it back to Undefined.
C12_LastMatchWins ==
    IF Hits = {}
    THEN category = prior
    ELSE category \in {CategoryByString(label) : label \in Matching(mapping, fed[Last(Hits)])}

C12_Witness ==
    /\ fed = <<LineConfig, LineBuild, LineNoMatch>>
    /\ mapping = TestMapping
    /\ prior = "Undefined"
    /\ category = "Build"

\* the sink field of the Command for a stream, and the process-wide stream
Configured(s) == IF s = "stdout" THEN cfg.stdout ELSE cfg.stderr
StdStream(s) == IF s = "stdout" THEN "os.Stdout" ELSE "os.Stderr"
Resolved(s) == IF Configured(s) = NilWriter THEN StdStream(s) ELSE Configured(s)
\* what the drain of stream s has taken out of the pipe so far
Taken(s) == SubSeq(OutputOf(s, Total(s)), 1, proc.written[s] - Len(pipe[s]))

\* C13: for each stream on its own, the drain of a run writes to the process-wide
\* standard stream when the sink of the Command is unset and to the configured
\* sink when it is set; what the drain has taken from the pipe is in that very
\* sink, but for the chunk of a Write under way, and no other sink receives
\* anything.
C13_SinkResolution ==
    call.mode # "none" =>
        /\ \A s \in Streams :
              /\ Target(s) = Resolved(s)
              /\ ~world.writer[s].fails => sink[Resolved(s)] \o writing[s].chunk = Taken(s)
        /\ \A id \in SinkIds \ {Resolved(s) : s \in Streams} : sink[id] = <<>>

C13_Witness ==
    /\ RunOver
    /\ cfg.stdout = NilWriter /\ cfg.stderr = "bufErr"
    /\ Len(sink["os.Stdout"]) = 2 /\ Len(sink["bufErr"]) = 1
    /\ sink["os.Stderr"] = <<>> /\ sink["bufOut"] = <<>>

C13_WitnessOther ==
    /\ RunOver
    /\ cfg.stdout = "bufOut" /\ cfg.stderr = NilWriter
    /\ Len(sink["bufOut"]) = 1 /\ Len(sink["os.Stderr"]) = 2

\* the barrier has been registered for the drain tasks of the current run
Registered == proc.state # "none" /\ pc \in {"goStdout", "goStderr", "wait", "check", "done"}
\* startCmd has returned an execution
Spawned == proc.state # "none" /\ pc \in {"wait", "check", "done"}
Unfinished == {s \in Streams : drain[s] # "done"}

C14_Count ==
    /\ wg \in 0..2
    /\ Registered => wg = Cardinality(Unfinished)
    /\ ~Registered => wg = 0 /\ \A s \in Streams : drain[s] = "none"
    /\ Spawned => \A s \in Streams : drain[s] # "none"

C14_Step ==
    /\ wg' > wg => pc = "add" /\ wg = 0 /\ wg' = 2 /\ \A s \in Streams : drain'[s] = "none"
    /\ wg' < wg => /\ wg' = wg - 1
                   /\ \E s \in Streams : /\ drain[s] = "copied" /\ drain'[s] = "done"
                                          /\ \A t \in Streams \ {s} : drain'[t] = drain[t]
    /\ \A s \in Streams :
          /\ (drain[s] # "done" /\ drain'[s] = "done") => wg' = wg - 1
          /\ (drain[s] = "done" /\ drain'[s] # "done") => pc = "done" /\ pc' = "idle" /\ wg = 0

\* C14: a successful start has exactly two drain tasks and registers the barrier
\* for both before spawning either; the count of the barrier is 0, 1 or 2 and is,
\* once registered, the number of drain tasks not yet finished; it goes up only
\* by that registration, from 0 to 2, and down only by one, when a drain task
\* finishes, which each does once.
C14_Barrier == []C14_Count /\ [][C14_Step]_vars

C14_Witness ==
    wg = 1 /\ drain["stderr"] = "done" /\ drain["stdout"] = "copying" /\ pipe["stdout"] # <<>>

SinksAccept == \A s \in Streams : ~world.writer[s].fails

\* C15: under fair scheduling a blocking run whose sinks accept every write
\* eventually returns: the child is never left blocked on a full pipe, whichever
\* stream it writes to first and however much it writes.
C15_BlockingReturns == (call.mode \in Blocking /\ SinksAccept) ~> RunOver

C15_Witness ==
    /\ BlockingOver /\ SinksAccept
    /\ proc.state = "exited"
    /\ proc.written["stdout"] > PipeCap /\ proc.written["stderr"] > PipeCap

\* the drain task of the stream has assigned its slot
Assigned(slot) == Len(slotLog[slot]) = 1

\* C16: each copy-error slot is assigned by the drain task of its own stream
\* only, at most once, and before that task signals the barrier; runCmd looks at
\* the slots only once the join has returned, when both tasks have assigned
\* theirs and signalled.
C16_SlotsRaceFree ==
    /\ \A slot \in Streams :
          /\ Len(slotLog[slot]) <= 1
          /\ \A i \in 1..Len(slotLog[slot]) : slotLog[slot][i] = slot
          /\ Assigned(slot) <=> drain[slot] \in {"copied", "done"}
          /\ ~Assigned(slot) => errCopy[slot] = NilErr
    /\ pc = "check" => joined /\ \A s \in Streams : Assigned(s) /\ drain[s] = "done"

C16_Witness ==
    /\ pc = "check"
    /\ errCopy["stderr"] # NilErr /\ errCopy["stdout"] = NilErr
    /\ slotLog["stdout"] = <<"stdout">> /\ slotLog["stderr"] = <<"stderr">>

\* C17: no two drain tasks are ever inside a Write of the same sink at the same
\* time, whatever sinks the setters were given, the same one for both streams
\* included.
C17_NoConcurrentWrite ==
    \A s, t \in Streams :
        (s # t /\ drain[s] = "writing" /\ drain[t] = "writing") => Target(s) # Target(t)

Setters == {"SetDir", "SetEnv", "Stdout", "Stderr"}

\* only a setter changes the Command
C18_Frame == cfg' # cfg => pc = "idle" /\ plan # <<>> /\ Head(plan).op \in Setters

\* the command of every run, the first and the later ones, is built from the
\* Command as the setters left it
C18_SameEachRun ==
    call.mode # "none" =>
        /\ cmd.dir = cfg.dir
        /\ cmd.env = AppendEnvironment(execEnv, environ, cfg.env)
        /\ Len(cfg.env) = 1
        /\ proc.state # "none" => proc.env = Inherited \o <<Entry("DEBUG", "true")>>

C18_WitnessLaunchFailure ==
    Len(results) = 2 /\ world.launch = "noStart" /\ cfg.stdout = NilWriter /\ cfg.env # <<>>

====
